---- MODULE Spec2Model ----
(***************************************************************************)
(* The two compatibility headers of the repository:                        *)
(*   src/bypass_fix.h      function-like macros that fail with ENOSYS,     *)
(*                         do nothing, or forward to sem_timedwait;        *)
(*   src/sovereign_shim.h  static inline sem_clockwait and close_range.    *)
(* A translation unit (tu) is preprocessed by including the headers; the   *)
(* calls of the compiled program then resolve to the macro, to the inline  *)
(* function, or to the platform's own symbol.                              *)
(***************************************************************************)
EXTENDS Integers, Sequences, FiniteSets

VARIABLES tu, kernel, errno, last, fds, buf, sem, wait

vars == <<tu, kernel, errno, last, fds, buf, sem, wait>>

\* ------------------------------------------------------------ bounds
MaxIncludes == 4
MaxFd == 5
MaxSem == 2
\* the most entries a caller's enumeration loop asks for
MaxEntries == 100

\* ------------------------------------------------- program constants
\* #define SYS_close_range 436
SYS_close_range_fallback == 436

\* ------------------------------------------------------ the platform
\* The number the architecture's system-call table gives close_range
\* (436 in the unified table, 546 on alpha).
ArchNr(arch) == IF arch = "alpha" THEN 546 ELSE 436

\* A platform: the architecture, and whether its <sys/syscall.h> is new
\* enough to define SYS_close_range.
Platforms == [arch : {"generic", "alpha"}, predefined : BOOLEAN]

\* ------------------------------------------------- translation units
\* The names the two headers define.
BypassMacros ==
  {"close_range", "copy_file_range", "preadv2", "pwritev2", "setpwent",
   "endpwent", "getpwent", "getloadavg", "fexecve", "sem_clockwait"}

ShimFunctions == {"sem_clockwait", "close_range"}

Symbols == BypassMacros \cup ShimFunctions \cup {"SYS_close_range"}

\* A translation unit before any #include of the two headers.
NewTU(p) ==
  [platform |-> p,
   included |-> <<>>,              \* the #include directives processed
   macros   |-> {},                \* macro names currently defined
   sysnr    |-> 0,                 \* the value of macro SYS_close_range
   funcs    |-> {},                \* functions the unit defines
   fnnr     |-> 0,                 \* identifier compiled into close_range
   ndef     |-> [s \in Symbols |-> 0], \* definitions given per name
   diag     |-> {}]                \* compile errors

Define(t, names) ==
  [t EXCEPT !.macros = @ \cup names,
            !.ndef = [s \in Symbols |-> IF s \in names THEN @[s] + 1 ELSE @[s]]]

\* bypass_fix.h, lines 1-23: the guarded block of #defines.
bypass_guarded(t) ==
  IF "REECH_BYPASS_H" \in t.macros THEN t
  ELSE LET g == [t EXCEPT !.macros = @ \cup {"REECH_BYPASS_H"}]
       IN  Define(g, BypassMacros)

\* bypass_fix.h, lines 24-28: the second guarded block.
bypass_ffi(t) ==
  IF "FFI_BYPASS" \in t.macros THEN t
  ELSE [t EXCEPT !.macros = @ \cup {"FFI_BYPASS"}]

\* #include "bypass_fix.h"
bypass_fix_h(t) ==
  LET u == bypass_ffi(bypass_guarded(t))
  IN  [u EXCEPT !.included = Append(@, "bypass_fix.h")]

\* sovereign_shim.h, line 7: <sys/syscall.h> brings the platform's
\* SYS_close_range, when it has one.
shim_syscall_h(t) ==
  IF t.platform.predefined /\ "SYS_close_range" \notin t.macros
  THEN [t EXCEPT !.macros = @ \cup {"SYS_close_range"},
                 !.sysnr = ArchNr(t.platform.arch)]
  ELSE t

\* sovereign_shim.h, lines 9-11: the definition of sem_clockwait. Under a
\* macro sem_clockwait(sem, clock, timeout) the declarator is rewritten to
\* sem_timedwait(sem_t *sem, const struct timespec *abs_timeout): a static
\* definition of a function <semaphore.h> declared extern.
shim_def_sem_clockwait(t) ==
  LET d == [t EXCEPT !.ndef["sem_clockwait"] = @ + 1]
  IN  IF "sem_clockwait" \in t.macros
      THEN [d EXCEPT !.diag = @ \cup {"static sem_timedwait follows non-static declaration"}]
      ELSE [d EXCEPT !.funcs = @ \cup {"sem_clockwait"}]

\* Lines 13-15 without the #ifndef: the fallback replaces the platform's
\* identifier.
shim_def_SYS_close_range_always(t) ==
  [Define(t, {"SYS_close_range"}) EXCEPT !.sysnr = SYS_close_range_fallback]

\* sovereign_shim.h, lines 13-15.
shim_def_SYS_close_range(t) ==
  IF "SYS_close_range" \in t.macros THEN t
  ELSE [Define(t, {"SYS_close_range"}) EXCEPT !.sysnr = SYS_close_range_fallback]

\* sovereign_shim.h, lines 16-18: the definition of close_range. Under a
\* macro close_range(a, b, c) the declarator is rewritten to
\* (errno = ENOSYS, -1), which is no declarator.
shim_def_close_range(t) ==
  LET d == [t EXCEPT !.ndef["close_range"] = @ + 1]
  IN  IF "close_range" \in t.macros
      THEN [d EXCEPT !.diag = @ \cup {"expected identifier before '(' token"}]
      ELSE [d EXCEPT !.funcs = @ \cup {"close_range"}, !.fnnr = t.sysnr]

\* sovereign_shim.h without its include guard.
shim_unguarded(t) ==
  LET g == [t EXCEPT !.macros = @ \cup {"SOVEREIGN_SHIM_H"}]
  IN  shim_def_close_range(
        shim_def_SYS_close_range(
          shim_def_sem_clockwait(shim_syscall_h(g))))

shim_guarded(t) ==
  IF "SOVEREIGN_SHIM_H" \in t.macros THEN t
  ELSE LET g == [t EXCEPT !.macros = @ \cup {"SOVEREIGN_SHIM_H"}]
       IN  shim_def_close_range(
             shim_def_SYS_close_range(
               shim_def_sem_clockwait(shim_syscall_h(g))))

\* #include "sovereign_shim.h"
sovereign_shim_h(t) ==
  [shim_guarded(t) EXCEPT !.included = Append(@, "sovereign_shim.h")]

\* What a call of `name` in the unit compiles to: a function-like macro
\* shadows a function of the same name.
Resolve(t, name) ==
  IF name \in t.macros THEN "macro"
  ELSE IF name \in t.funcs THEN "function"
  ELSE "native"

\* ------------------------------------------------------ the run time
Threads == {1, 2}

ENOSYS == "ENOSYS"

\* The values errno takes in the model; "0" is no error.
Errnos == {"0", "EBADF", "EINTR", "EINVAL", "ENOSYS", "ETIMEDOUT"}

\* What a call returns: one value, or none (a void expression, a call
\* that has not returned). NULL is the null pointer constant.
Value(v) == {v}
NoValue == {}
NULL == Value(0)

\* What a call on thread t starts from: the calling thread, every thread's
\* errno (the macro errno names the caller's), the open descriptors, the
\* caller's buffer and the semaphore; no value returned yet, no system
\* call made, not blocked.
Enter(t) ==
  [self |-> t, errno |-> errno, fds |-> fds, buf |-> buf, sem |-> sem,
   ret |-> NoValue, sys |-> <<>>, block |-> FALSE]

\* ---- changed macros and functions, none of them the repository's: each
\* is what a slip in the header would make of the definition after it.
\* close_range that closes the range before it fails
bypass_close_range_partial(m, a, b, c) ==
  [m EXCEPT !.fds = {d \in @ : d < a \/ d > b}, !.errno[m.self] = "ENOSYS", !.ret = Value(-1)]

\* getloadavg with errno one variable of the process
getloadavg_global_errno(m, a, b) ==
  [m EXCEPT !.errno = [u \in DOMAIN @ |-> "ENOSYS"], !.ret = Value(-1)]

\* fexecve as (-1), errno left alone
fexecve_errno_kept(m, a, b, c) == [m EXCEPT !.ret = Value(-1)]

\* endpwent and getpwent written like the failing macros
endpwent_sets_errno(m) == [m EXCEPT !.errno[m.self] = "ENOSYS", !.ret = NoValue]

getpwent_sets_errno(m) == [m EXCEPT !.errno[m.self] = "ENOSYS", !.ret = NULL]

\* ---- bypass_fix.h: the always-fail macros, (errno = ENOSYS, -1).
\* The arguments do not occur in the replacement text.
bypass_close_range(m, a, b, c) == [m EXCEPT !.errno[m.self] = ENOSYS, !.ret = Value(-1)]

copy_file_range(m, a, b, c, d, e, f) == [m EXCEPT !.errno[m.self] = ENOSYS, !.ret = Value(-1)]

preadv2(m, a, b, c, d, e) == [m EXCEPT !.errno[m.self] = ENOSYS, !.ret = Value(-1)]

pwritev2(m, a, b, c, d, e) == [m EXCEPT !.errno[m.self] = ENOSYS, !.ret = Value(-1)]

getloadavg(m, a, b) == [m EXCEPT !.errno[m.self] = ENOSYS, !.ret = Value(-1)]

fexecve(m, a, b, c) == [m EXCEPT !.errno[m.self] = ENOSYS, !.ret = Value(-1)]

\* ---- bypass_fix.h: the password database macros.
\* ((void)0)
setpwent(m) == [m EXCEPT !.ret = NoValue]

endpwent(m) == [m EXCEPT !.ret = NoValue]

\* (NULL)
getpwent(m) == [m EXCEPT !.ret = NULL]

\* A caller's loop over the password database,
\*   for (n = 0; n < MaxEntries; n++) if (getpwent() == NULL) break;
\* entered with n calls made; it yields the number of calls it made.
RECURSIVE Enumerate(_, _)
Enumerate(m, n) ==
  IF n = MaxEntries THEN [m EXCEPT !.ret = Value(n)]
  ELSE LET out == getpwent(m)
       IN  IF out.ret = NULL THEN [out EXCEPT !.ret = Value(n + 1)]
           ELSE Enumerate(out, n + 1)

\* ---- the C library's sem_timedwait(sem, abs_timeout), which both
\* headers forward to. abs_timeout is "past" or "future" of
\* CLOCK_REALTIME, or "invalid" (tv_nsec out of range). The semaphore is
\* taken when it can be; otherwise the timeout is checked and the caller
\* blocks until a post, the deadline or a signal.
sem_timedwait(m, abs_timeout) ==
  IF m.sem > 0 THEN [m EXCEPT !.sem = @ - 1, !.ret = Value(0)]
  ELSE IF abs_timeout = "invalid" THEN [m EXCEPT !.errno[m.self] = "EINVAL", !.ret = Value(-1)]
  ELSE IF abs_timeout = "past" THEN [m EXCEPT !.errno[m.self] = "ETIMEDOUT", !.ret = Value(-1)]
  ELSE [m EXCEPT !.block = TRUE]

\* bypass_fix.h: #define sem_clockwait(sem, clock, timeout)
\*                 sem_timedwait(sem, timeout)
bypass_sem_clockwait(m, clock, timeout) == sem_timedwait(m, timeout)

\* sem_clockwait that honours the clock: a deadline that is past on
\* CLOCK_REALTIME is still ahead on CLOCK_MONOTONIC.
shim_sem_clockwait_by_clock(m, clockid, abs_timeout) ==
  IF clockid = "CLOCK_MONOTONIC" /\ abs_timeout = "past"
  THEN sem_timedwait(m, "future")
  ELSE sem_timedwait(m, abs_timeout)

\* sovereign_shim.h: static inline int sem_clockwait(sem, clockid,
\* abs_timeout) { return sem_timedwait(sem, abs_timeout); }
shim_sem_clockwait(m, clockid, abs_timeout) == sem_timedwait(m, abs_timeout)

\* ---- the kernel, reached by syscall(number, ...).
\* close_range(fd, max_fd, flags) of a kernel that has it: unknown flag
\* bits and fd > max_fd are EINVAL; CLOSE_RANGE_CLOEXEC (4) marks the
\* descriptors and closes none; otherwise every open descriptor of
\* [fd, max_fd] is closed.
sys_close_range(m, fd, max_fd, flags) ==
  IF flags \notin {0, 2, 4, 6} THEN [m EXCEPT !.errno[m.self] = "EINVAL", !.ret = Value(-1)]
  ELSE IF fd > max_fd THEN [m EXCEPT !.errno[m.self] = "EINVAL", !.ret = Value(-1)]
  ELSE IF flags \in {4, 6} THEN [m EXCEPT !.ret = Value(0)]
  ELSE [m EXCEPT !.fds = {d \in @ : d < fd \/ d > max_fd}, !.ret = Value(0)]

\* syscall(number, a, b, c) on the running kernel. The number of
\* close_range reaches it when the kernel has it and is ENOSYS when not;
\* 436 on alpha is mq_notify(a, b), which fails with EBADF as no
\* descriptor of the model is a message queue.
syscall(m, number, a, b, c) ==
  LET n == [m EXCEPT !.sys = Append(@, <<number, a, b, c>>)]
  IN  IF number = ArchNr(tu.platform.arch)
      THEN IF kernel.close_range
           THEN sys_close_range(n, a, b, c)
           ELSE [n EXCEPT !.errno[n.self] = "ENOSYS", !.ret = Value(-1)]
      ELSE [n EXCEPT !.errno[n.self] = "EBADF", !.ret = Value(-1)]

\* close_range with first and last exchanged
shim_close_range_swapped(m, first, last_, flags) ==
  syscall(m, tu.fnnr, last_, first, flags)

\* close_range that answers an inverted range itself
shim_close_range_translating(m, first, last_, flags) ==
  IF first > last_ THEN [m EXCEPT !.ret = Value(0)]
  ELSE syscall(m, tu.fnnr, first, last_, flags)

\* sovereign_shim.h: static inline int close_range(unsigned int first,
\* unsigned int last, unsigned int flags)
\* { return syscall(SYS_close_range, first, last, flags); }
\* SYS_close_range is the value the macro had where the function was
\* defined.
shim_close_range(m, first, last_, flags) ==
  syscall(m, tu.fnnr, first, last_, flags)

\* ---------------------------------------------------------- the state
NoCall ==
  [tid |-> 0, op |-> "none", impl |-> "none", args |-> <<>>, ret |-> NoValue,
   sys |-> <<>>, closed |-> {}]

\* Argument values of the calls: unsigned int descriptors up to INT_MAX,
\* flag words, clock ids, timeouts, and argument lists of the other calls
\* (one of valid and one of invalid arguments).
FdArgs == {0, 3, 4, 10, 2147483647}
FlagArgs == {0, 1, 4}
Clocks == {"CLOCK_REALTIME", "CLOCK_MONOTONIC"}
Timeouts == {"past", "future", "invalid"}
CopyArgs == {<<3, 0, 4, 0, 1, 0>>, <<-1, 0, -1, 0, 0, 7>>}
IoArgs == {<<3, 1, 1, 0, 0>>, <<-1, 0, -1, -1, 9>>}
LoadArgs == {<<1, 3>>, <<0, -1>>}
ExecArgs == {<<3, 1, 1>>, <<-1, 0, 0>>}

Running(t) == tu.diag = {} /\ tu.included # <<>> /\ ~wait[t]

\* The call of `op` on thread t ends as `out`, or blocks.
Return(t, op, args, out) ==
  /\ errno' = out.errno
  /\ fds' = out.fds
  /\ buf' = out.buf
  /\ sem' = out.sem
  /\ wait' = [wait EXCEPT ![t] = out.block]
  /\ last' = [tid |-> t, op |-> op, impl |-> Resolve(tu, op), args |-> args,
              ret |-> out.ret,
              sys |-> out.sys, closed |-> fds \ out.fds]
  /\ UNCHANGED <<tu, kernel>>

\* ------------------------------------------------- the preprocessor
IncludeBypass ==
  /\ Len(tu.included) < MaxIncludes
  /\ last = NoCall
  /\ tu' = bypass_fix_h(tu)
  /\ UNCHANGED <<kernel, errno, last, fds, buf, sem, wait>>

IncludeShim ==
  /\ Len(tu.included) < MaxIncludes
  /\ last = NoCall
  /\ tu' = sovereign_shim_h(tu)
  /\ UNCHANGED <<kernel, errno, last, fds, buf, sem, wait>>

\* ------------------------------------------------- calls of the program
CallCloseRange(t, a, b, c) ==
  /\ Running(t)
  /\ Resolve(tu, "close_range") # "native"
  /\ Return(t, "close_range", <<a, b, c>>,
            IF Resolve(tu, "close_range") = "macro"
            THEN bypass_close_range(Enter(t), a, b, c)
            ELSE shim_close_range(Enter(t), a, b, c))

CallCopyFileRange(t, a, b, c, d, e, f) ==
  /\ Running(t)
  /\ Resolve(tu, "copy_file_range") = "macro"
  /\ Return(t, "copy_file_range", <<>>, copy_file_range(Enter(t), a, b, c, d, e, f))

CallPreadv2(t, a, b, c, d, e) ==
  /\ Running(t)
  /\ Resolve(tu, "preadv2") = "macro"
  /\ Return(t, "preadv2", <<>>, preadv2(Enter(t), a, b, c, d, e))

CallPwritev2(t, a, b, c, d, e) ==
  /\ Running(t)
  /\ Resolve(tu, "pwritev2") = "macro"
  /\ Return(t, "pwritev2", <<>>, pwritev2(Enter(t), a, b, c, d, e))

CallGetloadavg(t, a, b) ==
  /\ Running(t)
  /\ Resolve(tu, "getloadavg") = "macro"
  /\ Return(t, "getloadavg", <<>>, getloadavg(Enter(t), a, b))

CallFexecve(t, a, b, c) ==
  /\ Running(t)
  /\ Resolve(tu, "fexecve") = "macro"
  /\ Return(t, "fexecve", <<>>, fexecve(Enter(t), a, b, c))

CallSetpwent(t) ==
  /\ Running(t)
  /\ Resolve(tu, "setpwent") = "macro"
  /\ Return(t, "setpwent", <<>>, setpwent(Enter(t)))

CallEndpwent(t) ==
  /\ Running(t)
  /\ Resolve(tu, "endpwent") = "macro"
  /\ Return(t, "endpwent", <<>>, endpwent(Enter(t)))

CallGetpwent(t) ==
  /\ Running(t)
  /\ Resolve(tu, "getpwent") = "macro"
  /\ Return(t, "getpwent", <<>>, getpwent(Enter(t)))

CallEnumerate(t) ==
  /\ Running(t)
  /\ Resolve(tu, "getpwent") = "macro"
  /\ Return(t, "enumerate", <<>>, Enumerate(Enter(t), 0))

CallSemClockwait(t, clock, timeout) ==
  /\ Running(t)
  /\ Resolve(tu, "sem_clockwait") # "native"
  /\ Return(t, "sem_clockwait", <<clock, timeout>>,
            IF Resolve(tu, "sem_clockwait") = "macro"
            THEN bypass_sem_clockwait(Enter(t), clock, timeout)
            ELSE shim_sem_clockwait(Enter(t), clock, timeout))

\* The program calls sem_timedwait itself.
CallSemTimedwait(t, timeout) ==
  /\ Running(t)
  /\ Return(t, "sem_timedwait", <<"none", timeout>>, sem_timedwait(Enter(t), timeout))

\* ---- how a blocked sem_timedwait ends
Wakeup(t, value, e) ==
  /\ tu.diag = {}
  /\ wait[t]
  /\ wait' = [wait EXCEPT ![t] = FALSE]
  /\ errno' = [errno EXCEPT ![t] = IF value = 0 THEN @ ELSE e]
  /\ last' = [NoCall EXCEPT !.tid = t, !.op = "wakeup", !.ret = Value(value)]
  /\ UNCHANGED <<tu, kernel, fds, buf>>

\* a post arrived
SemAcquire(t) == sem > 0 /\ sem' = sem - 1 /\ Wakeup(t, 0, "0")

\* the deadline passed
SemTimeout(t) == UNCHANGED sem /\ Wakeup(t, -1, "ETIMEDOUT")

\* a signal handler interrupted the wait
SemInterrupt(t) == UNCHANGED sem /\ Wakeup(t, -1, "EINTR")

\* ---- what else the program does
Other(t, op) ==
  /\ Running(t)
  /\ last' = [NoCall EXCEPT !.tid = t, !.op = op]
  /\ UNCHANGED <<tu, kernel>>

\* sem_post
SemPost(t) ==
  /\ sem < MaxSem
  /\ sem' = sem + 1
  /\ Other(t, "sem_post")
  /\ UNCHANGED <<errno, fds, buf, wait>>

\* open: the lowest free descriptor
NativeOpen(t) ==
  /\ \E d \in 0 .. MaxFd :
       /\ d \notin fds
       /\ \A x \in 0 .. MaxFd : x < d => x \in fds
       /\ fds' = fds \cup {d}
  /\ Other(t, "open")
  /\ UNCHANGED <<errno, buf, sem, wait>>

\* read: new data in the caller's buffer
NativeRead(t) ==
  /\ buf' = 1 - buf
  /\ Other(t, "read")
  /\ UNCHANGED <<errno, fds, sem, wait>>

\* an assignment to errno, by the caller or by another library call
SetErrno(t, e) ==
  /\ errno[t] # e
  /\ errno' = [errno EXCEPT ![t] = e]
  /\ Other(t, "errno")
  /\ UNCHANGED <<fds, buf, sem, wait>>

\* ------------------------------------------------------ specifications
Idle ==
  /\ errno = [t \in Threads |-> "0"]
  /\ last = NoCall
  /\ fds = 0 .. 2
  /\ buf = 0
  /\ sem = 0
  /\ wait = [t \in Threads |-> FALSE]

\* The units that include only bypass_fix.h, only sovereign_shim.h, and
\* sovereign_shim.h before bypass_fix.h; the other order does not compile.
BypassUnits == {bypass_fix_h(NewTU(p)) : p \in Platforms}
ShimUnits == {sovereign_shim_h(NewTU(p)) : p \in Platforms}
ShadowedUnits == {bypass_fix_h(u) : u \in ShimUnits}

Kernels == [close_range : BOOLEAN]

\* Preprocessing a translation unit.
InitTU == tu \in {NewTU(p) : p \in Platforms} /\ kernel \in Kernels /\ Idle
NextTU == IncludeBypass \/ IncludeShim
SpecTU == InitTU /\ [][NextTU]_vars

\* A single-threaded program that calls what bypass_fix.h replaces.
InitStub == tu \in BypassUnits \cup ShadowedUnits /\ kernel \in Kernels /\ Idle
NextStub ==
  \/ \E a, b \in FdArgs, c \in FlagArgs : CallCloseRange(1, a, b, c)
  \/ \E x \in CopyArgs : CallCopyFileRange(1, x[1], x[2], x[3], x[4], x[5], x[6])
  \/ \E x \in IoArgs : CallPreadv2(1, x[1], x[2], x[3], x[4], x[5])
  \/ \E x \in IoArgs : CallPwritev2(1, x[1], x[2], x[3], x[4], x[5])
  \/ \E x \in LoadArgs : CallGetloadavg(1, x[1], x[2])
  \/ \E x \in ExecArgs : CallFexecve(1, x[1], x[2], x[3])
  \/ CallSetpwent(1)
  \/ CallEndpwent(1)
  \/ CallGetpwent(1)
  \/ CallEnumerate(1)
  \/ NativeOpen(1)
  \/ NativeRead(1)
  \/ \E e \in Errnos : SetErrno(1, e)
SpecStub == InitStub /\ [][NextStub]_vars

\* A program that waits on a semaphore, through either header.
InitSem == tu \in BypassUnits \cup ShimUnits \cup ShadowedUnits /\ kernel \in Kernels /\ Idle
NextSem ==
  \/ \E k \in Clocks, x \in Timeouts : CallSemClockwait(1, k, x)
  \/ \E x \in Timeouts : CallSemTimedwait(1, x)
  \/ SemAcquire(1) \/ SemTimeout(1) \/ SemInterrupt(1)
  \/ SemPost(2)
  \/ \E e \in Errnos : SetErrno(1, e)
SpecSem == InitSem /\ [][NextSem]_vars

\* A single-threaded program that closes descriptors through
\* sovereign_shim.h.
InitFd == tu \in ShimUnits /\ kernel \in Kernels /\ Idle
NextFd ==
  \/ \E a, b \in FdArgs, c \in FlagArgs : CallCloseRange(1, a, b, c)
  \/ NativeOpen(1)
  \/ \E e \in Errnos : SetErrno(1, e)
SpecFd == InitFd /\ [][NextFd]_vars

\* A program of several threads.
InitThreads == tu \in BypassUnits \cup ShimUnits /\ kernel \in Kernels /\ Idle
NextThreads ==
  \E t \in Threads :
    \/ \E a \in {0, 3} : CallCloseRange(t, a, 10, 0)
    \/ \E x \in ExecArgs : CallFexecve(t, x[1], x[2], x[3])
    \/ \E x \in LoadArgs : CallGetloadavg(t, x[1], x[2])
    \/ CallGetpwent(t)
    \/ \E k \in Clocks, x \in Timeouts : CallSemClockwait(t, k, x)
    \/ SemAcquire(t) \/ SemTimeout(t) \/ SemInterrupt(t)
    \/ SemPost(t)
    \/ SetErrno(t, "0")
SpecThreads == InitThreads /\ [][NextThreads]_vars

\* ------------------------------------------------------------- claims
AlwaysFailOps ==
  {"close_range", "copy_file_range", "preadv2", "pwritev2", "getloadavg", "fexecve"}

InRange(d, a, b) == a <= d /\ d <= b

Included(h) == \E i \in 1 .. Len(tu.included) : tu.included[i] = h

\* The identifier in use is the kernel's own and the kernel has the call.
Working == kernel.close_range /\ tu.fnnr = ArchNr(tu.platform.arch)

\* What a call that leaves the process alone leaves alone.
Frame == fds' = fds /\ buf' = buf /\ sem' = sem /\ wait' = wait /\ last'.sys = <<>>

\* C1: through bypass_fix.h, close_range, copy_file_range, preadv2,
\* pwritev2, getloadavg and fexecve return -1 with errno ENOSYS,
\* whatever the arguments and whatever errno was before.
C1_AlwaysFail ==
  (last.op \in AlwaysFailOps /\ last.impl = "macro")
    => (last.ret = Value(-1) /\ errno[last.tid] = ENOSYS)

C1_Witness ==
  /\ last.op = "close_range" /\ last.impl = "macro" /\ last.args = <<3, 10, 0>>
  /\ last.ret = Value(-1) /\ errno[1] = ENOSYS

\* C2: a call of an always-fail macro changes nothing but the caller's
\* errno: the open descriptors, the caller's buffer, the semaphore and
\* the other threads are as before, and no system call is made.
C2_NothingButErrno ==
  [][(last'.op \in AlwaysFailOps /\ last'.impl = "macro")
       => /\ Frame
          /\ \A u \in Threads \ {last'.tid} : errno'[u] = errno[u]]_vars

C2_Witness ==
  /\ last.op = "close_range" /\ last.impl = "macro" /\ last.args = <<3, 10, 0>>
  /\ {3, 4} \subseteq fds /\ buf = 1

\* C3: sem_clockwait of either header, with any clock id, does what
\* sem_timedwait does from the same state with the same timeout (return
\* value, errno, semaphore, blocking), and the two headers' versions agree.
C3_SameAsTimedwait ==
  [][\A k \in Clocks, x \in Timeouts :
       CallSemClockwait(1, k, x) =>
         LET ref == sem_timedwait(Enter(1), x)
         IN  /\ errno' = ref.errno
             /\ sem' = ref.sem
             /\ wait'[1] = ref.block
             /\ last'.ret = ref.ret
             /\ fds' = fds /\ buf' = buf
             /\ \A k2 \in Clocks :
                  bypass_sem_clockwait(Enter(1), k2, x) = shim_sem_clockwait(Enter(1), k, x)]_vars

C3_Witness ==
  /\ last.op = "sem_clockwait" /\ last.impl = "function"
  /\ last.args = <<"CLOCK_MONOTONIC", "past">>
  /\ last.ret = Value(-1) /\ errno[1] = "ETIMEDOUT"

\* C4: close_range of sovereign_shim.h makes exactly one system call,
\* syscall(SYS_close_range, first, last, flags), and returns its result:
\* where the kernel facility works, close_range(first, last, 0) returns 0,
\* and after a return of 0 with flags 0 the open descriptors are those
\* that were open outside [first, last]; a failure returns -1 with the
\* kernel's errno and closes nothing.
C4_OneKernelCall ==
  [][(last'.op = "close_range" /\ last'.impl = "function") =>
       LET a == last'.args[1]
           b == last'.args[2]
           c == last'.args[3]
           t == last'.tid
           ref == syscall(Enter(t), tu.fnnr, a, b, c)
       IN  /\ last'.sys = << <<tu.fnnr, a, b, c>> >>
           /\ last'.ret = ref.ret /\ errno' = ref.errno /\ fds' = ref.fds
           /\ (last'.ret = Value(0) /\ c = 0) => fds' = {d \in fds : ~InRange(d, a, b)}
           /\ (last'.ret # Value(0)) =>
                /\ last'.ret = Value(-1) /\ fds' = fds
                /\ errno'[t] \in {"EINVAL", "ENOSYS", "EBADF"}
           /\ (Working /\ a <= b /\ c = 0) => last'.ret = Value(0)]_vars

C4_Witness ==
  /\ last.op = "close_range" /\ last.impl = "function" /\ last.args = <<3, 10, 0>>
  /\ last.ret = Value(0) /\ last.closed = {3, 5} /\ fds = 0 .. 2

\* C5: close_range of sovereign_shim.h with first > last, or with no open
\* descriptor in [first, last], returns what the kernel call returns for
\* it (-1 with EINVAL for the inverted range, 0 for the empty one where
\* the facility works), translates no error and closes no descriptor.
C5_Boundary ==
  [][LET a == last'.args[1]
         b == last'.args[2]
         c == last'.args[3]
         t == last'.tid
     IN  (/\ last'.op = "close_range" /\ last'.impl = "function"
          /\ (a > b \/ {d \in fds : InRange(d, a, b)} = {})) =>
           LET ref == syscall(Enter(t), tu.fnnr, a, b, c)
           IN  /\ last'.ret \in {Value(0), Value(-1)}
               /\ last'.ret = ref.ret /\ errno'[t] = ref.errno[t]
               /\ last'.closed = {} /\ fds' = fds
               /\ (Working /\ a > b) => (last'.ret = Value(-1) /\ errno'[t] = "EINVAL")
               /\ (Working /\ a <= b /\ c = 0) =>
                    (last'.ret = Value(0) /\ errno'[t] = errno[t])]_vars

C5_Witness ==
  /\ last.op = "close_range" /\ last.impl = "function" /\ last.args = <<10, 3, 0>>
  /\ last.ret = Value(-1) /\ errno[1] = "EINVAL" /\ Working

\* C6: getpwent of bypass_fix.h returns NULL on every call, after any
\* calls before it, and changes nothing, errno included; a loop that
\* enumerates up to MaxEntries entries ends with its first call.
C6_GetpwentNull ==
  [][\A t \in Threads :
       /\ CallGetpwent(t) => (last'.ret = NULL /\ errno' = errno /\ Frame)
       /\ CallEnumerate(t) => (last'.ret = Value(1) /\ errno' = errno /\ Frame)]_vars

C6_Witness ==
  last.op = "enumerate" /\ last.ret = Value(1) /\ errno[1] = "EINTR" /\ buf = 1

\* C7: setpwent and endpwent of bypass_fix.h yield no value and change
\* nothing, errno included, however often and in whatever order called.
C7_PwentNoEffect ==
  [][\A t \in Threads :
       (CallSetpwent(t) \/ CallEndpwent(t))
         => (last'.ret = NoValue /\ errno' = errno /\ Frame)]_vars

C7_Witness ==
  last.op = "endpwent" /\ last.ret = NoValue /\ errno[1] = "EBADF" /\ 3 \in fds

\* C8, as claimed: whatever the sequence of inclusions, every name is
\* defined at most once and no conflict arises.
C8_DefinedOnce ==
  (\A s \in Symbols : tu.ndef[s] <= 1) /\ tu.diag = {}

\* C8, amended: a unit that includes only one of the two headers, any
\* number of times, defines every name at most once and compiles; a unit
\* that includes both is given sem_clockwait and close_range twice, and
\* no other name more than once: with bypass_fix.h first the functions
\* do not compile, with sovereign_shim.h first the macros shadow them.
C8_OneHeaderOnly ==
  IF Included("bypass_fix.h") /\ Included("sovereign_shim.h")
  THEN /\ tu.ndef["sem_clockwait"] = 2 /\ tu.ndef["close_range"] = 2
       /\ \A s \in Symbols \ ShimFunctions : tu.ndef[s] <= 1
       /\ tu.included[1] = "bypass_fix.h" => tu.diag # {}
       /\ tu.included[1] = "sovereign_shim.h" =>
            /\ tu.diag = {} /\ tu.funcs = ShimFunctions
            /\ \A s \in ShimFunctions : Resolve(tu, s) = "macro"
  ELSE (\A s \in Symbols : tu.ndef[s] <= 1) /\ tu.diag = {}

C8_Witness ==
  /\ tu.included = <<"sovereign_shim.h", "sovereign_shim.h", "sovereign_shim.h">>
  /\ tu.ndef["close_range"] = 1 /\ tu.ndef["sem_clockwait"] = 1
  /\ tu.funcs = ShimFunctions

\* C9: under any interleaving a thread's step leaves the other threads'
\* errno and blocking alone, a thread that calls an always-fail macro gets
\* -1 and its own errno ENOSYS without blocking, and only sem_clockwait
\* blocks its caller.
C9_ThreadSafe ==
  [][\A t \in Threads :
       /\ (last'.tid = t) =>
            \A u \in Threads \ {t} : errno'[u] = errno[u] /\ wait'[u] = wait[u]
       /\ (last'.tid = t /\ last'.op \in AlwaysFailOps /\ last'.impl = "macro") =>
            (last'.ret = Value(-1) /\ errno'[t] = ENOSYS /\ ~wait'[t])
       /\ (wait'[t] /\ ~wait[t]) => last'.op = "sem_clockwait"]_vars

C9_Witness ==
  /\ last.tid = 1 /\ last.op = "getloadavg" /\ last.ret = Value(-1)
  /\ errno[1] = ENOSYS /\ errno[2] = "ETIMEDOUT" /\ sem = 1

\* C10: the identifier compiled into close_range of sovereign_shim.h is
\* the platform's SYS_close_range when its headers define one and 436
\* when they do not, however often the header is included.
C10_Identifier ==
  /\ "close_range" \in tu.funcs =>
       tu.fnnr = (IF tu.platform.predefined THEN ArchNr(tu.platform.arch)
                  ELSE SYS_close_range_fallback)
  /\ "close_range" \notin tu.funcs => tu.fnnr = 0
  /\ ("SYS_close_range" \in tu.macros /\ tu.platform.predefined) =>
       tu.sysnr = ArchNr(tu.platform.arch)

C10_Witness ==
  /\ tu.included = <<"sovereign_shim.h", "bypass_fix.h", "sovereign_shim.h">>
  /\ tu.platform = [arch |-> "alpha", predefined |-> TRUE]
  /\ tu.fnnr = 546
====
